---- MODULE Spec2Model ----
(***************************************************************************)
(* Tseitin transformation of boolean circuits (transform.py) and the       *)
(* SAT-based equivalence check built on it (ec.py).                        *)
(*                                                                         *)
(* A CNF is a set of clauses, a clause a set of literals, a literal a      *)
(* variable name with a polarity.  Variable names are strings, built with  *)
(* the same concatenations the code performs.                              *)
(***************************************************************************)
EXTENDS Integers, Sequences, FiniteSets, TLC

VARIABLES gate, tables, tr, mit, ck

vars == <<gate, tables, tr, mit, ck>>

(***************************************************************************)
(* Literals, clauses, assignments                                          *)
(***************************************************************************)

\* SatVar v used positively (v) and negatively (~v)
Pos(v) == [var |-> v, pos |-> TRUE]

Neg(v) == [var |-> v, pos |-> FALSE]

\* the variable names occurring in a CNF
VarsOf(cnf) == {l.var : l \in UNION cnf}

\* an assignment (a function from names to booleans) satisfies a CNF
Sat(cnf, asg) == \A cl \in cnf : \E l \in cl : asg[l.var] = l.pos

\* An operand of a gate encoder: a python bool, a SatVar, or None
Const(b) == [t |-> "const", b |-> b, v |-> ""]

VarOp(v) == [t |-> "var", b |-> FALSE, v |-> v]

NoneOp == [t |-> "none", b |-> FALSE, v |-> ""]

\* isinstance(x, bool)
IsBool(x) == x.t = "const"

\* a python dict is a function; dict() is the function of empty domain
EmptyDict == [x \in {} |-> ""]

\* d.update(e)
Update(d, e) ==
  [x \in DOMAIN d \cup DOMAIN e |-> IF x \in DOMAIN e THEN e[x] ELSE d[x]]

\* inputs.clear(); internals.clear(); signals.clear()
ClearTables == [inputs |-> EmptyDict, signals |-> EmptyDict, internals |-> EmptyDict]

(***************************************************************************)
(* Gate encoders, transform.py lines 42-110                                *)
(***************************************************************************)

equals(in1, out) ==
  IF IsBool(in1)
  THEN IF in1.b THEN {{Pos(out)}} ELSE {{Neg(out)}}
  ELSE {{Neg(in1.v), Pos(out)}, {Pos(in1.v), Neg(out)}}

gate_not(in1, out) ==
  IF IsBool(in1)
  THEN IF in1.b THEN {{Neg(out)}} ELSE {{Pos(out)}}
  ELSE {{Neg(in1.v), Neg(out)}, {Pos(in1.v), Pos(out)}}

gate_and(in1, in2, out) ==
  IF IsBool(in1) /\ IsBool(in2)
  THEN IF in1.b /\ in2.b THEN {{Pos(out)}} ELSE {{Neg(out)}}
  ELSE IF IsBool(in1)
  THEN IF in1.b
       THEN {{Neg(in2.v), Pos(out)}, {Pos(in2.v), Neg(out)}}
       ELSE {{Pos(in2.v), Neg(out)}, {Neg(out)}}
  ELSE IF IsBool(in2)
  THEN IF in2.b
       THEN {{Neg(in1.v), Pos(out)}, {Pos(in1.v), Neg(out)}}
       ELSE {{Pos(in1.v), Neg(out)}, {Neg(out)}}
  ELSE {{Neg(in1.v), Neg(in2.v), Pos(out)}, {Pos(in1.v), Neg(out)},
        {Pos(in2.v), Neg(out)}}

gate_or(in1, in2, out) ==
  IF IsBool(in1) /\ IsBool(in2)
  THEN IF ~in1.b /\ ~in2.b THEN {{Neg(out)}} ELSE {{Pos(out)}}
  ELSE IF IsBool(in1)
  THEN IF in1.b
       THEN {{Pos(out)}, {Neg(in2.v), Pos(out)}}
       ELSE {{Pos(in2.v), Neg(out)}, {Neg(in2.v), Pos(out)}}
  ELSE IF IsBool(in2)
  THEN IF in2.b
       THEN {{Neg(out)}, {Neg(in1.v), Pos(out)}}
       ELSE {{Pos(in1.v), Neg(out)}, {Neg(in1.v), Pos(out)}}
  ELSE {{Pos(in1.v), Pos(in2.v), Neg(out)}, {Neg(in1.v), Pos(out)},
        {Neg(in2.v), Pos(out)}}

gate_xor(in1, in2, out) ==
  IF IsBool(in1) /\ IsBool(in2)
  THEN IF in1.b = in2.b THEN {{Neg(out)}} ELSE {{Pos(out)}}
  ELSE IF IsBool(in1)
  THEN IF in1.b
       THEN {{Neg(in2.v), Neg(out)}, {Pos(in2.v), Pos(out)}}
       ELSE {{Pos(in2.v), Neg(out)}, {Neg(in2.v), Pos(out)}}
  ELSE IF IsBool(in2)
  THEN IF in2.b
       THEN {{Neg(in1.v), Neg(out)}, {Pos(in1.v), Pos(out)}}
       ELSE {{Pos(in1.v), Neg(out)}, {Neg(in1.v), Pos(out)}}
  ELSE {{Neg(in1.v), Neg(in2.v), Neg(out)}, {Pos(in1.v), Pos(in2.v), Neg(out)},
        {Pos(in1.v), Neg(in2.v), Pos(out)}, {Neg(in1.v), Pos(in2.v), Pos(out)}}

(***************************************************************************)
(* The satisfiability oracle (circuit.cnf.Solver): sound and complete.     *)
(* Models(cnf, vs) is the set of all assignments of the names vs that      *)
(* satisfy cnf; solve returns one of them, or nothing when there is none.  *)
(***************************************************************************)

\* cnf after giving variable v the value b
Assign(cnf, v, b) ==
  {cl \ {[var |-> v, pos |-> ~b]} : cl \in {d \in cnf : [var |-> v, pos |-> b] \notin d}}

Extend(m, v, b) == [x \in DOMAIN m \cup {v} |-> IF x = v THEN b ELSE m[x]]

RECURSIVE Models(_, _)
Models(cnf, vs) ==
  IF {} \in cnf THEN {}
  ELSE IF cnf = {} THEN [vs -> BOOLEAN]
  ELSE LET units == {cl \in cnf : Cardinality(cl) = 1}
           l == IF units # {}
                THEN CHOOSE x \in UNION units : TRUE
                ELSE CHOOSE x \in UNION cnf : TRUE
       IN  IF units # {}
           THEN {Extend(m, l.var, l.pos) :
                   m \in Models(Assign(cnf, l.var, l.pos), vs \ {l.var})}
           ELSE {Extend(m, l.var, TRUE) :
                   m \in Models(Assign(cnf, l.var, TRUE), vs \ {l.var})}
                \cup
                {Extend(m, l.var, FALSE) :
                   m \in Models(Assign(cnf, l.var, FALSE), vs \ {l.var})}

\* Solver.solve(cnf): the possible answers, a solution over the names vs
\* or "unsatisfiable"
Solve(cnf, vs) ==
  LET ms == Models(cnf, vs)
  IN  IF ms = {}
      THEN {[sat |-> FALSE, sol |-> <<>>]}
      ELSE {[sat |-> TRUE, sol |-> m] : m \in ms}

\* the unit clauses fixing the names of asg to their values
Units(asg) == {{[var |-> v, pos |-> asg[v]]} : v \in DOMAIN asg}

(***************************************************************************)
(* Gate encoders as a system: an encoder is applied to operands that are   *)
(* variables or constants, then its clauses are solved with the operand    *)
(* variables fixed.                                                        *)
(***************************************************************************)

GateOps == {"equals", "not", "and", "or", "xor"}

GateNames == {"a", "b"}

GateOperands == {Const(TRUE), Const(FALSE)} \cup {VarOp(v) : v \in GateNames}

Unary(op) == op \in {"equals", "not"}

\* the call of the encoder named op
Encode(op, in1, in2, out) ==
  CASE op = "equals" -> equals(in1, out)
    [] op = "not"    -> gate_not(in1, out)
    [] op = "and"    -> gate_and(in1, in2, out)
    [] op = "or"     -> gate_or(in1, in2, out)
    [] op = "xor"    -> gate_xor(in1, in2, out)

\* the gate's truth table
GateFn(op, x, y) ==
  CASE op = "equals" -> x
    [] op = "not"    -> ~x
    [] op = "and"    -> x /\ y
    [] op = "or"     -> x \/ y
    [] op = "xor"    -> x # y

\* the value of an operand under an assignment
OperandVal(x, asg) == IF IsBool(x) THEN x.b ELSE asg[x.v]

GateOff == [pc |-> "off"]

TrOff == <<>>

MitOff == [pc |-> "off"]

CkOff == [pc |-> "off"]

GateInit ==
  /\ \E op \in GateOps, in1 \in GateOperands, in2 \in GateOperands :
       /\ Unary(op) => in2 = in1
       /\ gate = [pc |-> "init", op |-> op, in1 |-> in1, in2 |-> in2,
                  cnf |-> {}, fixed |-> <<>>, sat |-> FALSE, sol |-> <<>>]
  /\ tables = ClearTables
  /\ tr = TrOff
  /\ mit = MitOff
  /\ ck = CkOff

GateAllVars == GateNames \cup {"out"}

GateEncode ==
  /\ gate.pc = "init"
  /\ gate' = [gate EXCEPT !.pc = "encoded",
                          !.cnf = Encode(gate.op, gate.in1, gate.in2, "out")]
  /\ UNCHANGED <<tables, tr, mit, ck>>

\* fix the operand variables and query the oracle
GateSolve ==
  /\ gate.pc = "encoded"
  /\ \E fixed \in [GateNames -> BOOLEAN] :
       \E r \in Solve(gate.cnf \cup Units(fixed), GateAllVars) :
         gate' = [gate EXCEPT !.pc = "solved", !.fixed = fixed,
                              !.sat = r.sat, !.sol = r.sol]
  /\ UNCHANGED <<tables, tr, mit, ck>>

GateNext == GateEncode \/ GateSolve

SpecGates == GateInit /\ [][GateNext]_vars

\* C4: the assignments satisfying an encoder's clauses are exactly those in
\* which out equals the gate's function of the operand values, for every
\* encoder and every choice of variable or constant operands; and with the
\* operand values fixed the oracle finds a solution, whose out is the
\* truth-table value.
GateExactness ==
  /\ gate.pc = "encoded" =>
       \A asg \in [GateAllVars -> BOOLEAN] :
         Sat(gate.cnf, asg) <=>
           (asg["out"] = GateFn(gate.op, OperandVal(gate.in1, asg),
                                OperandVal(gate.in2, asg)))
  /\ gate.pc = "solved" =>
       /\ gate.sat
       /\ gate.sol["out"] = GateFn(gate.op, OperandVal(gate.in1, gate.fixed),
                                   OperandVal(gate.in2, gate.fixed))

(***************************************************************************)
(* Circuits (circuit.circuit): a node is a Literal, a Variable reference,  *)
(* a UnOp (~) or a BinOp (&, |, ^); compound nodes carry an identity.  A   *)
(* circuit has input names, output names, and an equation for each signal  *)
(* (outputs and named internals), enumerated in the order sigs.            *)
(***************************************************************************)

Lit(b) ==
  [kind |-> "Literal", op |-> "", value |-> b, name |-> "", id |-> 0,
   children |-> <<>>]

Ref(n) ==
  [kind |-> "Variable", op |-> "", value |-> FALSE, name |-> n, id |-> 0,
   children |-> <<>>]

Un(id, x) ==
  [kind |-> "UnOp", op |-> "~", value |-> FALSE, name |-> "", id |-> id,
   children |-> <<x>>]

Bin(id, op, x, y) ==
  [kind |-> "BinOp", op |-> op, value |-> FALSE, name |-> "", id |-> id,
   children |-> <<x, y>>]

BinOps == {"&", "|", "^"}

\* isinstance(n, OpNode)
IsOpNode(n) == n.kind \in {"UnOp", "BinOp"}

Circuit(ins, outs, sigs, eq) ==
  [inputs |-> ins, outputs |-> outs, sigs |-> sigs, eq |-> eq]

\* c.getSignals() as a set
SignalSet(c) == {c.sigs[i] : i \in DOMAIN c.sigs}

\* c.getEquation(name)
getEquation(c, name) == c.eq[name]

\* direct evaluation of a node of circuit c on an input assignment
RECURSIVE Eval(_, _, _)
Eval(n, c, asg) ==
  CASE n.kind = "Literal"  -> n.value
    [] n.kind = "Variable" -> IF n.name \in c.inputs
                              THEN asg[n.name]
                              ELSE Eval(getEquation(c, n.name), c, asg)
    [] n.kind = "UnOp"     -> ~Eval(n.children[1], c, asg)
    [] n.kind = "BinOp"    ->
         LET x == Eval(n.children[1], c, asg)
             y == Eval(n.children[2], c, asg)
         IN  CASE n.op = "&" -> x /\ y
               [] n.op = "|" -> x \/ y
               [] n.op = "^" -> x # y

\* the value of signal name of c on an input assignment
EvalSignal(c, name, asg) == Eval(getEquation(c, name), c, asg)

(***************************************************************************)
(* transform.py: the module-level tables and the Tseitin transformation    *)
(***************************************************************************)

RECURSIVE isLiteral(_, _, _)
isLiteral(n, c, tb) ==
  CASE n.kind = "Literal"  -> TRUE
    [] n.kind = "Variable" -> IF n.name \in DOMAIN tb.inputs
                              THEN FALSE
                              ELSE isLiteral(getEquation(c, n.name), c, tb)
    [] n.kind = "UnOp"     -> isLiteral(n.children[1], c, tb)
    [] n.kind = "BinOp"    -> /\ isLiteral(n.children[1], c, tb)
                              /\ isLiteral(n.children[2], c, tb)

RECURSIVE getLiteralValue(_, _, _)
getLiteralValue(n, c, tb) ==
  CASE n.kind = "Literal"  -> n.value
    [] n.kind = "Variable" -> IF n.name \in DOMAIN tb.inputs
                              THEN FALSE
                              ELSE getLiteralValue(getEquation(c, n.name), c, tb)
    [] n.kind = "UnOp"     -> getLiteralValue(n.children[1], c, tb)
    [] n.kind = "BinOp"    -> /\ getLiteralValue(n.children[1], c, tb)
                              /\ getLiteralValue(n.children[2], c, tb)

\* the operand a Variable child stands for; None when the name is in
\* neither table
getSatVar(v, c, tb) ==
  IF v.name \in DOMAIN tb.inputs
  THEN VarOp(tb.inputs[v.name])
  ELSE IF v.name \in DOMAIN tb.signals
  THEN IF isLiteral(v, c, tb)
       THEN Const(getLiteralValue(v, c, tb))
       ELSE VarOp(tb.signals[v.name])
  ELSE NoneOp

\* SatVar('y_' + str(child.getID()))
SyntheticVar(n) == "y_" \o ToString(n.id)

NoSub == [err |-> FALSE, cnf |-> {}, entered |-> <<>>, alloc |-> <<>>]

\* the concatenation of the (at most two) sequences f[1], f[2]
Cat(f) ==
  IF Len(f) = 0 THEN <<>> ELSE IF Len(f) = 1 THEN f[1] ELSE f[1] \o f[2]

\* transform_node(n, out, c) under the tables tb.  err: an exception was
\* raised (a KeyError of signals[...], or an operator applied to None);
\* entered: the compound nodes transform_node was entered for, in order;
\* alloc: the compound nodes a synthetic variable was allocated for.
RECURSIVE transform_node(_, _, _, _)
transform_node(n, out, c, tb) ==
  LET kids == n.children
      sub == [i \in DOMAIN kids |->
                IF IsOpNode(kids[i])
                THEN transform_node(kids[i], SyntheticVar(kids[i]), c, tb)
                ELSE NoSub]
      operand == [i \in DOMAIN kids |->
                    CASE kids[i].kind = "Literal"  -> Const(kids[i].value)
                      [] kids[i].kind = "Variable" -> getSatVar(kids[i], c, tb)
                      [] OTHER -> VarOp(SyntheticVar(kids[i]))]
      typeErr == \E i \in DOMAIN kids : operand[i].t = "none"
      keyErr == /\ Len(kids) = 0
                /\ n.kind = "Variable"
                /\ n.name \notin DOMAIN tb.signals
      err == typeErr \/ keyErr \/ \E i \in DOMAIN kids : sub[i].err
      own == IF Len(kids) = 2
             THEN CASE n.op = "&" -> gate_and(operand[1], operand[2], out)
                    [] n.op = "|" -> gate_or(operand[1], operand[2], out)
                    [] n.op = "^" -> gate_xor(operand[1], operand[2], out)
                    [] OTHER -> {}
             ELSE IF Len(kids) = 1
             THEN IF n.op = "~" THEN gate_not(operand[1], out) ELSE {}
             ELSE IF n.kind = "Variable"
             THEN equals(VarOp(tb.signals[n.name]), out)
             ELSE {}
  IN  [err |-> err,
       cnf |-> IF err THEN {} ELSE UNION {sub[i].cnf : i \in DOMAIN kids} \cup own,
       entered |-> (IF IsOpNode(n) THEN <<n.id>> ELSE <<>>)
                   \o Cat([i \in DOMAIN kids |-> sub[i].entered]),
       alloc |-> Cat([i \in DOMAIN kids |->
                        (IF IsOpNode(kids[i]) THEN <<kids[i].id>> ELSE <<>>)
                        \o sub[i].alloc])]

\* for in_str in c.getInputs(): inputs[in_str] = SatVar(in_str)
FillInputs(tb, c) ==
  [tb EXCEPT !.inputs = Update(tb.inputs, [n \in c.inputs |-> n])]

\* for sig_str in c.getSignals(): signals[sig_str] = SatVar(prefix + sig_str)
FillSignals(tb, c, prefix) ==
  [tb EXCEPT !.signals = Update(tb.signals, [n \in SignalSet(c) |-> prefix \o n])]

\* internals[child.getID()] = SatVar('y_' + str(child.getID())) for each id
Allocate(tb, ids) ==
  [tb EXCEPT !.internals =
     Update(tb.internals, [i \in {ids[k] : k \in DOMAIN ids} |-> "y_" \o ToString(i)])]

\* one iteration of the loop of transform over the signals:
\* solution = solution & transform_node(c.getEquation(sig), signals[sig], c)
SignalStep(tb, c, sig) ==
  IF sig \notin DOMAIN tb.signals
  THEN [err |-> TRUE, cnf |-> {}, entered |-> <<>>, alloc |-> <<>>]
  ELSE transform_node(getEquation(c, sig), tb.signals[sig], c, tb)

RECURSIVE RunSignals(_, _, _, _)
RunSignals(tb, c, todo, acc) ==
  IF todo = <<>> \/ acc.err THEN acc
  ELSE LET r == SignalStep(tb, c, Head(todo))
       IN  RunSignals(tb, c, Tail(todo),
                      [err |-> r.err,
                       cnf |-> acc.cnf \cup r.cnf,
                       entered |-> acc.entered \o r.entered,
                       alloc |-> acc.alloc \o r.alloc])

\* the tables as transform(c, prefix) fills them
TablesOf(c, prefix) == FillSignals(FillInputs(ClearTables, c), c, prefix)

\* transform(c, prefix) run from start to end
Transform(c, prefix) == RunSignals(TablesOf(c, prefix), c, c.sigs, NoSub)

(***************************************************************************)
(* transform as a process: invocation p of transform(c, prefix) steps      *)
(* through the body of transform, reading and writing the module-level     *)
(* tables.  One invocation alone is the sequential program; two of them    *)
(* interleave the way two threads calling transform do.                    *)
(***************************************************************************)

Invocation(c, prefix) ==
  [pc |-> "start", c |-> c, prefix |-> prefix, todo |-> c.sigs,
   solution |-> {}, entered |-> <<>>, alloc |-> <<>>]

\* lines 187-190
TClear(p) ==
  /\ tr[p].pc = "start"
  /\ tables' = ClearTables
  /\ tr' = [tr EXCEPT ![p].pc = "inputs", ![p].solution = {}]
  /\ UNCHANGED <<gate, mit, ck>>

\* lines 193-194
TFillInputs(p) ==
  /\ tr[p].pc = "inputs"
  /\ tables' = FillInputs(tables, tr[p].c)
  /\ tr' = [tr EXCEPT ![p].pc = "signals"]
  /\ UNCHANGED <<gate, mit, ck>>

\* lines 197-198
TFillSignals(p) ==
  /\ tr[p].pc = "signals"
  /\ tables' = FillSignals(tables, tr[p].c, tr[p].prefix)
  /\ tr' = [tr EXCEPT ![p].pc = "loop"]
  /\ UNCHANGED <<gate, mit, ck>>

\* lines 201-203, one iteration
TSignal(p) ==
  /\ tr[p].pc = "loop"
  /\ tr[p].todo # <<>>
  /\ LET r == SignalStep(tables, tr[p].c, Head(tr[p].todo))
     IN  /\ tables' = Allocate(tables, r.alloc)
         /\ \/ /\ r.err
               /\ tr' = [tr EXCEPT ![p].pc = "error",
                                   ![p].entered = @ \o r.entered,
                                   ![p].alloc = @ \o r.alloc]
            \/ /\ ~r.err
               /\ tr' = [tr EXCEPT ![p].todo = Tail(@),
                                   ![p].solution = @ \cup r.cnf,
                                   ![p].entered = @ \o r.entered,
                                   ![p].alloc = @ \o r.alloc]
  /\ UNCHANGED <<gate, mit, ck>>

\* line 205
TReturn(p) ==
  /\ tr[p].pc = "loop"
  /\ tr[p].todo = <<>>
  /\ tr' = [tr EXCEPT ![p].pc = "done"]
  /\ UNCHANGED <<gate, tables, mit, ck>>

TNext ==
  \/ \E p \in DOMAIN tr : TClear(p)
  \/ \E p \in DOMAIN tr : TFillInputs(p)
  \/ \E p \in DOMAIN tr : TFillSignals(p)
  \/ \E p \in DOMAIN tr : TSignal(p)
  \/ \E p \in DOMAIN tr : TReturn(p)

\* The circuits transformed: inputs a, b; a named internal signal s and an
\* output o.  The equation of s is a literal, an input, or one gate over
\* them; the equation of o is a literal, a reference to a or to s, one gate
\* over them, or a gate over the node of s itself (a node with two parents).
Exprs(leaves, id) ==
  leaves \cup {Un(id, x) : x \in leaves}
         \cup {Bin(id, op, x, y) : op \in BinOps, x \in leaves, y \in leaves}

ExprsS == Exprs({Lit(TRUE), Lit(FALSE), Ref("a"), Ref("b")}, 1)

ExprsO(e) ==
  Exprs({Lit(TRUE), Ref("a"), Ref("s")}, 2)
  \cup (IF IsOpNode(e)
        THEN {Bin(2, op, e, e) : op \in BinOps}
             \cup {Bin(2, "&", e, Ref("a")), Bin(2, "|", Un(3, e), e)}
        ELSE {})

TransformCircuits ==
  UNION {{Circuit({"a", "b"}, {"o"}, <<"s", "o">>,
                  [n \in {"s", "o"} |-> IF n = "s" THEN e ELSE f]) :
            f \in ExprsO(e)} : e \in ExprsS}

Prefixes == {"", "c1_"}

TransformInit ==
  /\ \E c \in TransformCircuits, prefix \in Prefixes :
       tr = <<Invocation(c, prefix)>>
  /\ tables = ClearTables
  /\ gate = GateOff
  /\ mit = MitOff
  /\ ck = CkOff

SpecTransform == TransformInit /\ [][TNext]_vars

\* the CNF variable of input name i of circuit c (line 194)
InputVar(i) == i

\* the CNF variable of signal name n under a prefix (line 198)
SignalVar(prefix, n) == prefix \o n

StartsWith(v, prefix) ==
  /\ Len(v) >= Len(prefix)
  /\ SubSeq(v, 1, Len(prefix)) = prefix

NoDuplicates(seq) ==
  \A i \in DOMAIN seq, j \in DOMAIN seq : i # j => seq[i] # seq[j]

\* the unit clauses fixing the input variables of c to the assignment asg
InputUnits(c, asg) == {{[var |-> InputVar(i), pos |-> asg[i]]} : i \in c.inputs}

\* every solution of cnf with the inputs fixed to asg gives each named
\* signal of c the value direct evaluation gives it, and there is one
ExactOn(c, prefix, cnf, asg) ==
  LET vs == VarsOf(cnf) \cup {InputVar(i) : i \in c.inputs}
                        \cup {SignalVar(prefix, n) : n \in SignalSet(c)}
      ms == Models(cnf \cup InputUnits(c, asg), vs)
  IN  /\ ms # {}
      /\ \A m \in ms : \A n \in SignalSet(c) :
           m[SignalVar(prefix, n)] = EvalSignal(c, n, asg)

\* C3: transform returns a CNF for every circuit over literals, references,
\* NOT, AND, OR and XOR, and for every input assignment that CNF with the
\* inputs fixed is satisfiable and each of its solutions gives every named
\* signal the value of the circuit's direct evaluation.
TransformExactness ==
  \A p \in DOMAIN tr :
    /\ tr[p].pc # "error"
    /\ tr[p].pc = "done" =>
         \A asg \in [tr[p].c.inputs -> BOOLEAN] :
           ExactOn(tr[p].c, tr[p].prefix, tr[p].solution, asg)

\* C5: every variable name of the CNF transform(c, prefix) returns begins
\* with prefix (inputs, signals and synthetic variables alike).
AllNamesPrefixed ==
  \A p \in DOMAIN tr :
    tr[p].pc = "done" =>
      \A v \in VarsOf(tr[p].solution) : StartsWith(v, tr[p].prefix)

\* C9: within one transform invocation no compound node is entered by
\* transform_node, or allocated a synthetic variable, more than once.
TransformedAtMostOnce ==
  \A p \in DOMAIN tr :
    NoDuplicates(tr[p].entered) /\ NoDuplicates(tr[p].alloc)

(***************************************************************************)
(* Two invocations of transform on different circuits whose steps          *)
(* interleave (the two circuits of an equivalence check: same input and    *)
(* output names, distinct prefixes).                                       *)
(***************************************************************************)

ConcCircuits(id) ==
  {Circuit({"a", "b"}, {"o"}, <<"o">>, [n \in {"o"} |-> e]) :
     e \in {Bin(id, op, Ref("a"), Ref("b")) : op \in BinOps} \cup {Un(id, Ref("a"))}}

ConcInit ==
  /\ \E c1 \in ConcCircuits(1), c2 \in ConcCircuits(2) :
       tr = <<Invocation(c1, "c1_"), Invocation(c2, "c2_")>>
  /\ tables = ClearTables
  /\ gate = GateOff
  /\ mit = MitOff
  /\ ck = CkOff

SpecConc == ConcInit /\ [][TNext]_vars

\* C10: when the steps of two transform invocations interleave, each
\* completes without error and returns the CNF it returns when run alone.
InvocationsIsolated ==
  \A p \in DOMAIN tr :
    /\ tr[p].pc # "error"
    /\ tr[p].pc = "done" =>
         tr[p].solution = Transform(tr[p].c, tr[p].prefix).cnf

(***************************************************************************)
(* ec.py: the miter.  createMiter enumerates the set of output names in    *)
(* some order; order is that enumeration.                                  *)
(***************************************************************************)

\* 'm_' + str(i), 'or_' + str(i)
MiterVar(i) == "m_" \o ToString(i)

OrVar(i) == "or_" \o ToString(i)

\* the enumerations of a set of names
Orders(S) ==
  {q \in [1..Cardinality(S) -> S] : \A i, j \in DOMAIN q : i # j => q[i] # q[j]}

\* the OR chain keeps only its last link
createMiterUnchained(order, prefix1, prefix2) ==
  LET n == Len(order)
      xors == UNION {gate_xor(VarOp(prefix1 \o order[i + 1]),
                              VarOp(prefix2 \o order[i + 1]), MiterVar(i)) :
                       i \in 0..(n - 1)}
      ors == UNION {gate_or(VarOp("or_neutral"), VarOp(MiterVar(i)), OrVar(i)) :
                      i \in 0..(n - 1)}
  IN  [cnf |-> xors \cup {{Neg("or_neutral")}} \cup ors, out |-> OrVar(n - 1)]

\* createMiter(outputs, prefix1, prefix2), outputs enumerated as order
\* (non-empty: with no output the returned name out is unbound)
createMiter(order, prefix1, prefix2) ==
  LET n == Len(order)
      xors == UNION {gate_xor(VarOp(prefix1 \o order[i + 1]),
                              VarOp(prefix2 \o order[i + 1]), MiterVar(i)) :
                       i \in 0..(n - 1)}
      ors == UNION {gate_or(IF i = 0 THEN VarOp("or_neutral")
                                     ELSE VarOp(OrVar(i - 1)),
                            VarOp(MiterVar(i)), OrVar(i)) :
                      i \in 0..(n - 1)}
  IN  [cnf |-> xors \cup {{Neg("or_neutral")}} \cup ors, out |-> OrVar(n - 1)]

\* the miter as a system: built for a set of outputs in some enumeration
\* order, then solved with the two circuits' output variables fixed
MaxOutputs == 2

NamePool == <<"o", "p", "q", "r">>

OutputNames == {NamePool[i] : i \in 1..MaxOutputs}

PrefixPairs == {<<"c1_", "c2_">>, <<"", "x_">>, <<"l_", "r_">>}

\* the variables of the two circuits' outputs
OutputVars(outs, prefix1, prefix2) ==
  {prefix1 \o o : o \in outs} \cup {prefix2 \o o : o \in outs}

MiterInit ==
  /\ \E outs \in SUBSET OutputNames \ {{}} :
       \E order \in Orders(outs), pp \in PrefixPairs :
         mit = [pc |-> "init", outs |-> outs, order |-> order,
                prefix1 |-> pp[1], prefix2 |-> pp[2],
                cnf |-> {}, out |-> "", fixed |-> <<>>, sat |-> FALSE,
                sol |-> <<>>]
  /\ tables = ClearTables
  /\ gate = GateOff
  /\ tr = TrOff
  /\ ck = CkOff

MiterBuild ==
  /\ mit.pc = "init"
  /\ LET r == createMiter(mit.order, mit.prefix1, mit.prefix2)
     IN  mit' = [mit EXCEPT !.pc = "built", !.cnf = r.cnf, !.out = r.out]
  /\ UNCHANGED <<gate, tables, tr, ck>>

MiterSolve ==
  /\ mit.pc = "built"
  /\ \E fixed \in [OutputVars(mit.outs, mit.prefix1, mit.prefix2) -> BOOLEAN] :
       \E r \in Solve(mit.cnf \cup Units(fixed), VarsOf(mit.cnf)) :
         mit' = [mit EXCEPT !.pc = "solved", !.fixed = fixed,
                            !.sat = r.sat, !.sol = r.sol]
  /\ UNCHANGED <<gate, tables, tr, ck>>

MiterNext == MiterBuild \/ MiterSolve

SpecMiter == MiterInit /\ [][MiterNext]_vars

\* the two circuits differ on some output under the assignment asg
Differ(outs, prefix1, prefix2, asg) ==
  \E o \in outs : asg[prefix1 \o o] # asg[prefix2 \o o]

\* the values the returned variable takes in the solutions of the miter
\* built in the enumeration order, with the output variables fixed to asg
MiterValues(order, prefix1, prefix2, asg) ==
  LET r == createMiter(order, prefix1, prefix2)
  IN  {m[r.out] : m \in Models(r.cnf \cup Units(asg), VarsOf(r.cnf))}

\* C8: for a non-empty set of outputs and any assignment of the variables
\* prefix1+o, prefix2+o, the CNF of createMiter is satisfiable and in every
\* solution the returned variable is true iff some output pair differs,
\* whatever the order the outputs are enumerated in.
MiterCorrect ==
  /\ mit.pc = "built" =>
       \A asg \in [OutputVars(mit.outs, mit.prefix1, mit.prefix2) -> BOOLEAN] :
         /\ LET ms == Models(mit.cnf \cup Units(asg), VarsOf(mit.cnf))
            IN  /\ ms # {}
                /\ \A m \in ms :
                     m[mit.out] = Differ(mit.outs, mit.prefix1, mit.prefix2, asg)
         /\ \A order \in Orders(mit.outs) :
              MiterValues(order, mit.prefix1, mit.prefix2, asg)
                = {Differ(mit.outs, mit.prefix1, mit.prefix2, asg)}
  /\ mit.pc = "solved" =>
       /\ mit.sat
       /\ mit.sol[mit.out] = Differ(mit.outs, mit.prefix1, mit.prefix2, mit.fixed)

\* a miter over two outputs solved with only the first enumerated pair
\* differing: the difference reaches the returned variable through the chain
MiterWitness ==
  /\ mit.pc = "solved"
  /\ Len(mit.order) = 2
  /\ mit.fixed[mit.prefix1 \o mit.order[1]] # mit.fixed[mit.prefix2 \o mit.order[1]]
  /\ mit.fixed[mit.prefix1 \o mit.order[2]] = mit.fixed[mit.prefix2 \o mit.order[2]]
  /\ mit.sat
  /\ mit.sol[mit.out]

(***************************************************************************)
(* ec.py: check(c1, c2)                                                    *)
(***************************************************************************)

RECURSIVE Pow2(_)
Pow2(n) == IF n = 0 THEN 1 ELSE 2 * Pow2(n - 1)

\* binrow(num, n): the n low bits of num, most significant first
binrow(num, n) == [k \in 1..n |-> (num \div Pow2(n - k)) % 2 = 1]

\* createTests(inputs), the set inputs enumerated as order: one row per
\* input vector, row i pairing the names with binrow(i, n)
createTests(order) ==
  LET n == Len(order)
  IN  [t \in 1..Pow2(n) |->
         [name \in {order[k] : k \in 1..n} |->
            binrow(t - 1, n)[CHOOSE k \in 1..n : order[k] = name]]]

\* setInputs(cnf, values, prefix1, prefix2), the keys of values enumerated as
\* order: setCnf is reassigned from cnf in every iteration, so only the last
\* key is fixed, and with no key the result is the empty Cnf()
setInputs(cnf, values, order, prefix1, prefix2) ==
  IF Len(order) = 0 THEN {}
  ELSE LET v == order[Len(order)]
       IN  cnf \cup {{[var |-> prefix1 \o v, pos |-> values[v]]},
                     {[var |-> prefix2 \o v, pos |-> values[v]]}}

\* the interface test is by count only
InterfaceMismatchByCount(c1, c2) ==
  \/ Cardinality(c1.inputs) # Cardinality(c2.inputs)
  \/ Cardinality(c1.outputs) # Cardinality(c2.outputs)

\* lines 131-135: the test under which check returns (False, None) at once
InterfaceMismatch(c1, c2) ==
  IF \/ Cardinality(c1.inputs) # Cardinality(c2.inputs)
     \/ Cardinality(c1.outputs) # Cardinality(c2.outputs)
  THEN TRUE
  ELSE \/ Cardinality(c1.inputs \ c2.inputs) # 0
       \/ Cardinality(c1.outputs \ c2.outputs) # 0

\* The circuits checked: a non-empty set of inputs, a non-empty set of
\* outputs; the first output is a gate chain of kind over all inputs (or the
\* negation of their conjunction), every further output their XOR chain.
\* Node identities start at base.
MaxInputs == 2

InputPool == <<"a", "b", "c", "d">>

InputNames == {InputPool[i] : i \in 1..MaxInputs}

InPool(pool, S) == SelectSeq(pool, LAMBDA x : x \in S)

RECURSIVE Chain(_, _, _)
Chain(op, leaves, id) ==
  IF Len(leaves) = 1 THEN leaves[1]
  ELSE Bin(id, op, leaves[1], Chain(op, Tail(leaves), id + 1))

Kinds == BinOps \cup {"~"}

Template(kind, leaves, id) ==
  IF kind = "~" THEN Un(id, Chain("&", leaves, id + 1))
  ELSE IF Len(leaves) = 1 THEN Bin(id, kind, leaves[1], leaves[1])
  ELSE Chain(kind, leaves, id)

CheckCircuit(ins, outs, kind, base) ==
  LET leaves == [k \in 1..Cardinality(ins) |-> Ref(InPool(InputPool, ins)[k])]
      sigs == InPool(NamePool, outs)
  IN  Circuit(ins, outs, sigs,
              [n \in outs |->
                 LET j == CHOOSE k \in DOMAIN sigs : sigs[k] = n
                 IN  Template(IF j = 1 THEN kind ELSE "^", leaves, base + 10 * j)])

CheckCircuits(base) ==
  {CheckCircuit(ins, outs, kind, base) :
     ins \in SUBSET InputNames \ {{}}, outs \in SUBSET OutputNames \ {{}},
     kind \in Kinds}

NoResult == [equiv |-> FALSE, hasSol |-> FALSE, sol |-> <<>>]

\* c2 is another circuit object, or the very object c1
CheckInit ==
  /\ \E c1 \in CheckCircuits(100) :
       \E c2 \in CheckCircuits(200) \cup {c1} :
         ck = [pc |-> "start", c1 |-> c1, c2 |-> c2,
               cnf1 |-> {}, cnf2 |-> {}, miter |-> {}, out |-> "",
               order |-> <<>>, tests |-> <<>>, i |-> 0,
               transformCalls |-> 0, solverCalls |-> 0, result |-> NoResult]
  /\ tables = ClearTables
  /\ gate = GateOff
  /\ tr = TrOff
  /\ mit = MitOff

\* lines 124-135
CkInterface ==
  /\ ck.pc = "start"
  /\ ck' = IF InterfaceMismatch(ck.c1, ck.c2)
           THEN [ck EXCEPT !.pc = "done",
                           !.result = [equiv |-> FALSE, hasSol |-> FALSE,
                                       sol |-> <<>>]]
           ELSE [ck EXCEPT !.pc = "transform1"]
  /\ UNCHANGED <<gate, tables, tr, mit>>

\* line 138
CkTransform1 ==
  /\ ck.pc = "transform1"
  /\ LET r == Transform(ck.c1, "c1_")
     IN  /\ ck' = [ck EXCEPT !.pc = IF r.err THEN "error" ELSE "transform2",
                             !.cnf1 = r.cnf,
                             !.transformCalls = @ + 1]
         /\ tables' = Allocate(TablesOf(ck.c1, "c1_"), r.alloc)
  /\ UNCHANGED <<gate, tr, mit>>

\* line 139
CkTransform2 ==
  /\ ck.pc = "transform2"
  /\ LET r == Transform(ck.c2, "c2_")
     IN  /\ ck' = [ck EXCEPT !.pc = IF r.err THEN "error" ELSE "miter",
                             !.cnf2 = r.cnf,
                             !.transformCalls = @ + 1]
         /\ tables' = Allocate(TablesOf(ck.c2, "c2_"), r.alloc)
  /\ UNCHANGED <<gate, tr, mit>>

\* lines 142-149; the sets outputs1 and inputs1 are enumerated in some order
CkMiter ==
  /\ ck.pc = "miter"
  /\ \E outOrder \in Orders(ck.c1.outputs), inOrder \in Orders(ck.c1.inputs) :
       LET m == createMiter(outOrder, "c1_", "c2_")
       IN  ck' = [ck EXCEPT !.pc = "loop",
                            !.miter = ck.cnf1 \cup ck.cnf2 \cup m.cnf
                                        \cup {{Neg(m.out)}},
                            !.out = m.out,
                            !.order = inOrder,
                            !.tests = createTests(inOrder),
                            !.i = 1]
  /\ UNCHANGED <<gate, tables, tr, mit>>

\* lines 150-154, one iteration; a Solution the solver returns is truthy
CkTest ==
  /\ ck.pc = "loop"
  /\ ck.i <= Len(ck.tests)
  /\ LET testCnf == setInputs(ck.miter, ck.tests[ck.i], ck.order, "c1_", "c2_")
     IN  \E r \in Solve(testCnf, VarsOf(testCnf)) :
           ck' = IF r.sat
                 THEN [ck EXCEPT !.pc = "done",
                                 !.solverCalls = @ + 1,
                                 !.result = [equiv |-> FALSE, hasSol |-> TRUE,
                                             sol |-> r.sol]]
                 ELSE [ck EXCEPT !.i = @ + 1, !.solverCalls = @ + 1]
  /\ UNCHANGED <<gate, tables, tr, mit>>

\* line 156
CkReturn ==
  /\ ck.pc = "loop"
  /\ ck.i > Len(ck.tests)
  /\ ck' = [ck EXCEPT !.pc = "done",
                      !.result = [equiv |-> TRUE, hasSol |-> FALSE, sol |-> <<>>]]
  /\ UNCHANGED <<gate, tables, tr, mit>>

CheckNext ==
  CkInterface \/ CkTransform1 \/ CkTransform2 \/ CkMiter \/ CkTest \/ CkReturn

SpecCheck == CheckInit /\ [][CheckNext]_vars

\* the interfaces of the two circuits agree
SameInterface == ck.c1.inputs = ck.c2.inputs /\ ck.c1.outputs = ck.c2.outputs

\* c1 and c2 give equal values to every shared output on every input vector
Equivalent(c1, c2) ==
  \A asg \in [c1.inputs -> BOOLEAN] : \A o \in c1.outputs :
    EvalSignal(c1, o, asg) = EvalSignal(c2, o, asg)

\* C1: for circuits with equal input-name sets and equal output-name sets,
\* check returns True exactly when the circuits agree on every shared output
\* for every input assignment; a circuit checked against itself returns
\* (True, None).
CheckDecidesEquivalence ==
  (ck.pc = "done" /\ SameInterface) =>
    /\ ck.result.equiv = Equivalent(ck.c1, ck.c2)
    /\ ck.c1 = ck.c2 => (ck.result.equiv /\ ~ck.result.hasSol)

\* the values a returned solution gives to the shared input names
SolutionInputs == [i \in ck.c1.inputs |-> ck.result.sol[InputVar(i)]]

\* C2: a solution returned with False is a counterexample: evaluated on its
\* input values the circuits differ on some shared output, and its values of
\* c1_<o> and c2_<o> are those evaluations.
SolutionIsCounterexample ==
  (ck.pc = "done" /\ ~ck.result.equiv /\ ck.result.hasSol) =>
    /\ \E o \in ck.c1.outputs :
         EvalSignal(ck.c1, o, SolutionInputs) # EvalSignal(ck.c2, o, SolutionInputs)
    /\ \A o \in ck.c1.outputs :
         /\ ck.result.sol["c1_" \o o] = EvalSignal(ck.c1, o, SolutionInputs)
         /\ ck.result.sol["c2_" \o o] = EvalSignal(ck.c2, o, SolutionInputs)

\* C6: when the input-name sets or the output-name sets differ, check returns
\* (False, None) with neither transform nor the solver invoked; when both are
\* equal the interface check does not reject and the run goes on to transform.
InterfaceCheckExact ==
  ck.pc # "start" =>
    IF SameInterface
    THEN /\ ck.pc = "transform1" \/ ck.transformCalls > 0
         /\ ck.pc = "done" => ck.transformCalls > 0
    ELSE /\ ck.pc = "done"
         /\ ~ck.result.equiv
         /\ ~ck.result.hasSol
         /\ ck.transformCalls = 0
         /\ ck.solverCalls = 0

\* two circuits with as many inputs but different input names, rejected
InterfaceWitness ==
  /\ ck.pc = "done"
  /\ Cardinality(ck.c1.inputs) = Cardinality(ck.c2.inputs)
  /\ ck.c1.inputs # ck.c2.inputs
  /\ ck.c1.outputs = ck.c2.outputs
  /\ ~ck.result.equiv
  /\ ck.transformCalls = 0

\* C7: a run of check on interface-compatible circuits invokes the solver
\* exactly once, whatever the number of inputs.
SolverInvokedOnce ==
  /\ ck.solverCalls <= 1
  /\ (ck.pc = "done" /\ SameInterface) => ck.solverCalls = 1

====
